---------------------------- MODULE Spec2Model ----------------------------
(***************************************************************************)
(* Model of traffic_ops/tocookie/tocookie.go: the signed cookie codec      *)
(* (New, NewRawMsg, Parse, Refresh, checkHmac).                            *)
(*                                                                         *)
(* Go strings and byte slices are sequences of bytes (0..255).  Indices    *)
(* and slices keep Go's 0-based, half-open meaning through Index,          *)
(* LastIndex and Slice.  int64 is modelled by a two's-complement integer   *)
(* of IntWidth bits (Wrap), so that the subtraction of Parse overflows     *)
(* the way the 64-bit one does.  HMAC-SHA1 is modelled by a keyed hash of  *)
(* MacLen bytes that depends on every byte of the key and the message.     *)
(***************************************************************************)
EXTENDS Integers, Sequences, FiniteSets, TLC

VARIABLES now, cookie, origin, res

vars == <<now, cookie, origin, res>>

---------------------------------------------------------------------------
(* Bounds of the model *)

\* width in bits of the modelled int64
IntWidth == 13

\* number of bytes of the modelled HMAC tag
MacLen == 3

\* the clock (seconds since the epoch) runs from NowStart to MaxNow
NowStart == 10

MaxNow == 11

---------------------------------------------------------------------------
(* Bytes *)

\* the byte '-'
Dash == 45

MinInt64 == -(2 ^ (IntWidth - 1))

MaxInt64 == 2 ^ (IntWidth - 1) - 1

\* two's-complement wrap-around of Go's signed integer arithmetic
Wrap(x) == ((x - MinInt64) % (2 ^ IntWidth)) + MinInt64

\* Go's s[lo:hi]
Slice(s, lo, hi) == SubSeq(s, lo + 1, hi)

\* whether Go's s[lo:hi] is in range (otherwise the runtime panics)
SliceInRange(s, lo, hi) == 0 <= lo /\ lo <= hi /\ hi <= Len(s)

\* the 1-based positions of byte c in s
Positions(s, c) == {i \in 1..Len(s) : s[i] = c}

\* strings.Index(s, string(c)): first 0-based position of byte c, or -1
Index(s, c) ==
    LET at == Positions(s, c) IN
    IF at = {} THEN -1 ELSE (CHOOSE i \in at : \A j \in at : i <= j) - 1

\* strings.LastIndex(s, string(c)): last 0-based position of byte c, or -1
LastIndex(s, c) ==
    LET at == Positions(s, c) IN
    IF at = {} THEN -1 ELSE (CHOOSE i \in at : \A j \in at : i >= j) - 1

---------------------------------------------------------------------------
(* encoding/base64: the URL-safe alphabet, "A-Za-z0-9-_" *)

\* encodeURL[i]
B64Char(i) ==
    IF i < 26 THEN 65 + i
    ELSE IF i < 52 THEN 97 + (i - 26)
    ELSE IF i < 62 THEN 48 + (i - 52)
    ELSE IF i = 62 THEN 45
    ELSE 95

\* decodeMap[c], -1 for a byte outside the alphabet
B64Val(c) ==
    IF c >= 65 /\ c <= 90 THEN c - 65
    ELSE IF c >= 97 /\ c <= 122 THEN c - 97 + 26
    ELSE IF c >= 48 /\ c <= 57 THEN c - 48 + 52
    ELSE IF c = 45 THEN 62
    ELSE IF c = 95 THEN 63
    ELSE -1

ByteAt(s, i) == IF i >= 1 /\ i <= Len(s) THEN s[i] ELSE 0

\* base64.RawURLEncoding.WithPadding(pad).EncodeToString(src): every 3 bytes
\* give 4 characters; a last group of 1 or 2 bytes gives 2 or 3 characters
\* followed by 2 or 1 pad characters.  The pad character is written as
\* given, also when it is a character of the alphabet ('-' is).
B64Encode(src, pad) ==
    LET n == Len(src)
        outLen == ((n + 2) \div 3) * 4
        Ch(k) ==
            LET g == k \div 4
                j == k % 4
                m == IF n - 3 * g >= 3 THEN 3 ELSE n - 3 * g
                val == ByteAt(src, 3 * g + 1) * 65536
                       + ByteAt(src, 3 * g + 2) * 256
                       + ByteAt(src, 3 * g + 3)
                six == (val \div (2 ^ (18 - 6 * j))) % 64
            IN IF j <= m THEN B64Char(six) ELSE pad
    IN [k \in 1..outLen |-> Ch(k - 1)]

\* the decoder skips '\r' and '\n'
StripNewlines(s) == SelectSeq(s, LAMBDA c : c # 10 /\ c # 13)

\* base64.RawURLEncoding.DecodeString(s), not strict: fails on a byte outside
\* the alphabet and on a last group of one character; trailing bits are not
\* checked.
B64RawDecode(s) ==
    LET t == StripNewlines(s)
        n == Len(t)
        outLen == (n * 6) \div 8
        SixAt(i) == IF i >= 1 /\ i <= n THEN B64Val(t[i]) ELSE 0
        By(k) ==
            LET g == k \div 3
                j == k % 3
                val == SixAt(4 * g + 1) * 262144 + SixAt(4 * g + 2) * 4096
                       + SixAt(4 * g + 3) * 64 + SixAt(4 * g + 4)
            IN (val \div (2 ^ (16 - 8 * j))) % 256
    IN IF (\E i \in 1..n : B64Val(t[i]) = -1) \/ n % 4 = 1
       THEN [ok |-> FALSE, bytes |-> <<>>]
       ELSE [ok |-> TRUE, bytes |-> [k \in 1..outLen |-> By(k - 1)]]

---------------------------------------------------------------------------
(* encoding/hex *)

HexDigit(v) == IF v < 10 THEN 48 + v ELSE 97 + (v - 10)

\* hex.EncodeToString: two lower-case digits per byte
HexEncode(b) ==
    [k \in 1..(2 * Len(b)) |->
        IF k % 2 = 1 THEN HexDigit(b[(k + 1) \div 2] \div 16)
        ELSE HexDigit(b[k \div 2] % 16)]

\* fromHexChar: digits and letters of either case, -1 otherwise
FromHexChar(c) ==
    IF c >= 48 /\ c <= 57 THEN c - 48
    ELSE IF c >= 97 /\ c <= 102 THEN c - 97 + 10
    ELSE IF c >= 65 /\ c <= 70 THEN c - 65 + 10
    ELSE -1

\* hex.DecodeString: fails on a byte that is no hex digit and on an odd length
HexDecode(s) ==
    IF (\E i \in 1..Len(s) : FromHexChar(s[i]) = -1) \/ Len(s) % 2 = 1
    THEN [ok |-> FALSE, bytes |-> <<>>]
    ELSE [ok |-> TRUE,
          bytes |-> [k \in 1..(Len(s) \div 2) |->
                        FromHexChar(s[2 * k - 1]) * 16 + FromHexChar(s[2 * k])]]

---------------------------------------------------------------------------
(* crypto/hmac over crypto/sha1, as a keyed hash *)

\* m^k modulo 256
RECURSIVE PowMod(_, _)
PowMod(m, k) ==
    IF k = 0 THEN 1
    ELSE LET h == PowMod(m, k \div 2) IN
         IF k % 2 = 0 THEN (h * h) % 256 ELSE (((h * h) % 256) * m) % 256

\* the digest of s[lo..hi]: the sum of (s[i] + 1) * m^(hi - i) modulo 256,
\* by halves
RECURSIVE Digest(_, _, _, _)
Digest(s, lo, hi, m) ==
    IF lo > hi THEN 0
    ELSE IF lo = hi THEN (s[lo] + 1) % 256
    ELSE LET mid == (lo + hi) \div 2 IN
         (Digest(s, lo, mid, m) * PowMod(m, hi - mid) + Digest(s, mid + 1, hi, m)) % 256

\* mac := hmac.New(sha1.New, key); mac.Write(message); mac.Sum(nil): byte j
\* of the tag is a digest, with an odd multiplier of its own, of the key, the
\* key's length and the message
MacSum(key, message) ==
    LET input == key \o <<Len(key) % 256>> \o message IN
    [j \in 1..MacLen |-> Digest(<<j>> \o input, 1, Len(input) + 1, 2 * j + 1)]

\* checkHmac(message, messageMAC, key)
checkHmac(message, messageMAC, key) == messageMAC = MacSum(key, message)

---------------------------------------------------------------------------
(* encoding/json, for the struct Cookie *)

\* const GeneratedByStr = "trafficcontrol-go-tocookie"
GeneratedByStr ==
    <<116, 114, 97, 102, 102, 105, 99, 99, 111, 110, 116, 114, 111, 108, 45,
      103, 111, 45, 116, 111, 99, 111, 111, 107, 105, 101>>

\* const DefaultDuration = time.Hour, in seconds
DefaultDuration == 3600

\* Cookie{}: the zero value
ZeroCookie == [AuthData |-> <<>>, ExpiresUnix |-> 0, By |-> <<>>]

\* the json field names "auth_data", "expires" and "by"
KeyAuthData == <<97, 117, 116, 104, 95, 100, 97, 116, 97>>

KeyExpires == <<101, 120, 112, 105, 114, 101, 115>>

KeyBy == <<98, 121>>

RECURSIVE Digits(_)
Digits(n) == IF n < 10 THEN <<48 + n>> ELSE Digits(n \div 10) \o <<48 + (n % 10)>>

\* strconv.AppendInt(n, 10)
Itoa(n) == IF n < 0 THEN <<45>> \o Digits(-n) ELSE Digits(n)

\* the encoder's string escape (escapeHTML on): '"' and '\' get a backslash,
\* '\n' '\r' '\t' their short form, other control bytes and '<' '>' '&' the
\* form \u00XX; every other byte is copied
JsonEscape(c) ==
    IF c = 34 \/ c = 92 THEN <<92, c>>
    ELSE IF c = 10 THEN <<92, 110>>
    ELSE IF c = 13 THEN <<92, 114>>
    ELSE IF c = 9 THEN <<92, 116>>
    ELSE IF c < 32 \/ c = 60 \/ c = 62 \/ c = 38
         THEN <<92, 117, 48, 48, HexDigit(c \div 16), HexDigit(c % 16)>>
    ELSE <<c>>

RECURSIVE JsonQuoteFrom(_, _)
JsonQuoteFrom(s, i) ==
    IF i > Len(s) THEN <<34>> ELSE JsonEscape(s[i]) \o JsonQuoteFrom(s, i + 1)

JsonQuote(s) == <<34>> \o JsonQuoteFrom(s, 1)

\* json.Marshal(Cookie): the fields in the order of the struct
Marshal(c) ==
    <<123, 34>> \o KeyAuthData \o <<34, 58>> \o JsonQuote(c.AuthData)
    \o <<44, 34>> \o KeyExpires \o <<34, 58>> \o Itoa(c.ExpiresUnix)
    \o <<44, 34>> \o KeyBy \o <<34, 58>> \o JsonQuote(c.By)
    \o <<125>>

IsWs(c) == c = 32 \/ c = 9 \/ c = 10 \/ c = 13

IsDigit(c) == c >= 48 /\ c <= 57

RECURSIVE SkipWs(_, _)
SkipWs(s, i) == IF i <= Len(s) /\ IsWs(s[i]) THEN SkipWs(s, i + 1) ELSE i

\* the bytes of the UTF-8 form of code point u (below 65536)
Utf8(u) ==
    IF u < 128 THEN <<u>>
    ELSE IF u < 2048 THEN <<192 + (u \div 64), 128 + (u % 64)>>
    ELSE <<224 + (u \div 4096), 128 + ((u \div 64) % 64), 128 + (u % 64)>>

Failed == [ok |-> FALSE, kind |-> "none", str |-> <<>>, num |-> 0, isInt |-> FALSE, next |-> 0]

\* a string literal whose opening quote is before position i
RECURSIVE ScanString(_, _, _)
ScanString(s, i, acc) ==
    IF i > Len(s) THEN Failed
    ELSE IF s[i] = 34
         THEN [ok |-> TRUE, kind |-> "string", str |-> acc, num |-> 0,
               isInt |-> FALSE, next |-> i + 1]
    ELSE IF s[i] < 32 THEN Failed
    ELSE IF s[i] # 92 THEN ScanString(s, i + 1, Append(acc, s[i]))
    ELSE IF i + 1 > Len(s) THEN Failed
    ELSE LET e == s[i + 1] IN
         IF e = 34 \/ e = 92 \/ e = 47 THEN ScanString(s, i + 2, Append(acc, e))
         ELSE IF e = 98 THEN ScanString(s, i + 2, Append(acc, 8))
         ELSE IF e = 102 THEN ScanString(s, i + 2, Append(acc, 12))
         ELSE IF e = 110 THEN ScanString(s, i + 2, Append(acc, 10))
         ELSE IF e = 114 THEN ScanString(s, i + 2, Append(acc, 13))
         ELSE IF e = 116 THEN ScanString(s, i + 2, Append(acc, 9))
         ELSE IF e = 117 /\ i + 5 <= Len(s)
                 /\ \A k \in 2..5 : FromHexChar(s[i + k]) # -1
              THEN ScanString(s, i + 6,
                       acc \o Utf8(FromHexChar(s[i + 2]) * 4096
                                   + FromHexChar(s[i + 3]) * 256
                                   + FromHexChar(s[i + 4]) * 16
                                   + FromHexChar(s[i + 5])))
         ELSE Failed

\* the digits from position i on: their value (capped above MaxInt64 + 1) and
\* the position after them
RECURSIVE ScanDigits(_, _, _)
ScanDigits(s, i, acc) ==
    IF i <= Len(s) /\ IsDigit(s[i])
    THEN ScanDigits(s, i + 1,
             IF acc * 10 + (s[i] - 48) > MaxInt64 + 1 THEN MaxInt64 + 2
             ELSE acc * 10 + (s[i] - 48))
    ELSE [val |-> acc, next |-> i]

\* a number literal at position i: -? (0 | [1-9][0-9]*) (. [0-9]+)? ([eE] [+-]? [0-9]+)?
ScanNumber(s, i) ==
    LET neg == i <= Len(s) /\ s[i] = 45
        p == IF neg THEN i + 1 ELSE i
        int == ScanDigits(s, p, 0)
        intOk == int.next > p /\ (s[p] # 48 \/ int.next = p + 1)
        hasFrac == int.next <= Len(s) /\ s[int.next] = 46
        frac == IF hasFrac THEN ScanDigits(s, int.next + 1, 0) ELSE int
        fracOk == ~hasFrac \/ frac.next > int.next + 1
        hasExp == frac.next <= Len(s) /\ (s[frac.next] = 101 \/ s[frac.next] = 69)
        q == IF hasExp /\ frac.next + 1 <= Len(s)
                /\ (s[frac.next + 1] = 43 \/ s[frac.next + 1] = 45)
             THEN frac.next + 2 ELSE frac.next + 1
        exp == IF hasExp THEN ScanDigits(s, q, 0) ELSE frac
        expOk == ~hasExp \/ exp.next > q
        v == IF neg THEN -int.val ELSE int.val
    IN IF ~(intOk /\ fracOk /\ expOk) THEN Failed
       ELSE [ok |-> TRUE, kind |-> "number", str |-> <<>>, num |-> v,
             isInt |-> ~hasFrac /\ ~hasExp /\ v >= MinInt64 /\ v <= MaxInt64,
             next |-> exp.next]

\* a literal name (null, true, false) at position i
ScanLiteral(s, i, name, kind) ==
    IF i + Len(name) - 1 <= Len(s) /\ SubSeq(s, i, i + Len(name) - 1) = name
    THEN [ok |-> TRUE, kind |-> kind, str |-> <<>>, num |-> 0, isInt |-> FALSE,
          next |-> i + Len(name)]
    ELSE Failed

\* a value that is no object or array, at position i
ScanScalar(s, i) ==
    IF i > Len(s) THEN Failed
    ELSE IF s[i] = 34 THEN ScanString(s, i + 1, <<>>)
    ELSE IF s[i] = 45 \/ IsDigit(s[i]) THEN ScanNumber(s, i)
    ELSE IF s[i] = 110 THEN ScanLiteral(s, i, <<110, 117, 108, 108>>, "null")
    ELSE IF s[i] = 116 THEN ScanLiteral(s, i, <<116, 114, 117, 101>>, "bool")
    ELSE IF s[i] = 102 THEN ScanLiteral(s, i, <<102, 97, 108, 115, 101>>, "bool")
    ELSE Failed

\* field names match exactly or without regard to case
Fold(k) == [i \in 1..Len(k) |-> IF k[i] >= 65 /\ k[i] <= 90 THEN k[i] + 32 ELSE k[i]]

\* the decoder's store of value v into the field named k of c: null and an
\* unknown name change nothing; a value of the wrong type is a type error
SetField(c, k, v) ==
    IF v.kind = "null" THEN [c |-> c, typeErr |-> FALSE]
    ELSE IF Fold(k) = KeyAuthData
         THEN IF v.kind = "string"
              THEN [c |-> [c EXCEPT !.AuthData = v.str], typeErr |-> FALSE]
              ELSE [c |-> c, typeErr |-> TRUE]
    ELSE IF Fold(k) = KeyExpires
         THEN IF v.kind = "number" /\ v.isInt
              THEN [c |-> [c EXCEPT !.ExpiresUnix = v.num], typeErr |-> FALSE]
              ELSE [c |-> c, typeErr |-> TRUE]
    ELSE IF Fold(k) = KeyBy
         THEN IF v.kind = "string"
              THEN [c |-> [c EXCEPT !.By = v.str], typeErr |-> FALSE]
              ELSE [c |-> c, typeErr |-> TRUE]
    ELSE [c |-> c, typeErr |-> FALSE]

NoCookie == [ok |-> FALSE, c |-> ZeroCookie]

\* the members of an object from position i (a key is expected there)
RECURSIVE ScanMembers(_, _, _, _)
ScanMembers(s, i, c, typeErr) ==
    IF i > Len(s) \/ s[i] # 34 THEN NoCookie
    ELSE LET k == ScanString(s, i + 1, <<>>) IN
         IF ~k.ok THEN NoCookie
         ELSE LET colon == SkipWs(s, k.next) IN
              IF colon > Len(s) \/ s[colon] # 58 THEN NoCookie
              ELSE LET v == ScanScalar(s, SkipWs(s, colon + 1)) IN
                   IF ~v.ok THEN NoCookie
                   ELSE LET set == SetField(c, k.str, v)
                            sep == SkipWs(s, v.next)
                        IN IF sep > Len(s) THEN NoCookie
                           ELSE IF s[sep] = 44
                                THEN ScanMembers(s, SkipWs(s, sep + 1), set.c,
                                                 typeErr \/ set.typeErr)
                           ELSE IF s[sep] = 125 /\ SkipWs(s, sep + 1) > Len(s)
                                THEN [ok |-> ~(typeErr \/ set.typeErr), c |-> set.c]
                           ELSE NoCookie

\* json.Unmarshal(data, &Cookie{}): ok is err == nil.  A syntax error, a value
\* that is no object, and a field value of the wrong type are errors; null, a
\* missing field and an unknown field are not.  (Values nested in the object
\* are outside the model.)
Unmarshal(data) ==
    LET i == SkipWs(data, 1) IN
    IF i > Len(data) THEN NoCookie
    ELSE IF data[i] = 123
         THEN LET j == SkipWs(data, i + 1) IN
              IF j <= Len(data) /\ data[j] = 125
              THEN [ok |-> SkipWs(data, j + 1) > Len(data), c |-> ZeroCookie]
              ELSE ScanMembers(data, j, ZeroCookie, FALSE)
    ELSE LET v == ScanScalar(data, i) IN
         [ok |-> v.ok /\ v.kind = "null" /\ SkipWs(data, v.next) > Len(data),
          c |-> ZeroCookie]

---------------------------------------------------------------------------
(* tocookie.go *)

\* what Parse gives back: a *Cookie with a nil error ("ok"), nil with an
\* error ("err", and which one), or a run-time panic ("panic")
Ok(c) == [kind |-> "ok", err |-> "", c |-> c]

Err(e) == [kind |-> "err", err |-> e, c |-> ZeroCookie]

Panic == [kind |-> "panic", err |-> "slice bounds out of range", c |-> ZeroCookie]

ErrNoDashes == "malformed cookie - no dashes"

ErrNoSignature == "malformed cookie -- no signature"

ErrBase64 == "error decoding base64 data"

ErrSignatureDecode == "error decoding signature"

ErrBadSignature == "bad signature"

ErrJSON == "error decoding base64 text to JSON"

ErrExpired == "signature expired"

\* a slip: the signed text taken up to the last '-' itself
SigScopeEndAtDash(lastDashPos) == lastDashPos

\* the end of the signed text: cookie[:lastDashPos-1]
SigScopeEnd(lastDashPos) == lastDashPos - 1

\* cookieData.ExpiresUnix-time.Now().Unix() < 0, in int64 arithmetic
Expired(expiresUnix, t) == Wrap(expiresUnix - t) < 0

\* Parse(secret, cookie) at time t = time.Now().Unix()
Parse(secret, ck, t) ==
    LET dashPos == Index(ck, Dash)
        lastDashPos == LastIndex(ck, Dash)
    IN IF dashPos = -1 THEN Err(ErrNoDashes)
       ELSE IF lastDashPos = -1 THEN Err(ErrNoDashes)
       ELSE IF Len(ck) < lastDashPos + 1 THEN Err(ErrNoSignature)
       ELSE LET txt == B64RawDecode(Slice(ck, 0, dashPos)) IN
            IF ~txt.ok THEN Err(ErrBase64)
            ELSE IF ~SliceInRange(ck, 0, SigScopeEnd(lastDashPos)) THEN Panic
            ELSE LET base64TxtSig == Slice(ck, 0, SigScopeEnd(lastDashPos))
                     sig == HexDecode(Slice(ck, lastDashPos + 1, Len(ck)))
                 IN IF ~sig.ok THEN Err(ErrSignatureDecode)
                    ELSE IF ~checkHmac(base64TxtSig, sig.bytes, secret)
                         THEN Err(ErrBadSignature)
                    ELSE LET cookieData == Unmarshal(txt.bytes) IN
                         IF ~cookieData.ok THEN Err(ErrJSON)
                         ELSE IF Expired(cookieData.c.ExpiresUnix, t)
                              THEN Err(ErrExpired)
                         ELSE Ok(cookieData.c)

\* the separator between the encoded text and the signature
Separator == <<Dash, Dash>>

\* NewRawMsg(msg, key)
NewRawMsg(msg, key) ==
    LET base64Msg == B64Encode(msg, Dash)
        base64Sig == HexEncode(MacSum(key, base64Msg))
    IN base64Msg \o Separator \o base64Sig

\* New(user, expiration, key), expiration given as expiration.Unix()
New(user, expiration, key) ==
    NewRawMsg(Marshal([AuthData |-> user, ExpiresUnix |-> expiration,
                       By |-> GeneratedByStr]), key)

\* a slip: the window added to the record's expiration, not to the clock
RefreshFromRecord(c, t) == Wrap(c.ExpiresUnix + DefaultDuration)

\* the expiration Refresh asks for: time.Now().Add(DefaultDuration)
RefreshExpiration(c, t) == Wrap(t + DefaultDuration)

\* Refresh(c, key) at time t
Refresh(c, key, t) == New(c.AuthData, RefreshExpiration(c, t), key)

---------------------------------------------------------------------------
(* The callers: what they pass to New, NewRawMsg, Parse and Refresh *)

\* identities: "", "a", "~", "ac" followed by U+20AC, and "\""
Users == {<<>>, <<97>>, <<126>>, <<97, 99, 226, 130, 172>>, <<34>>}

\* secret keys: "k1" and "k2"
Keys == {<<107, 49>>, <<107, 50>>}

\* expirations asked for at time t: around t, around the refresh window and
\* at both ends of the int64 range
Expirations(t) ==
    {MinInt64, MinInt64 + t - 1, MinInt64 + t, t - 1, t, t + 1,
     t + DefaultDuration + 1, MaxInt64}

\* payloads a holder of the key may sign with NewRawMsg at time t, each with
\* what it lacks: nothing ("none"), a field ("absent"), a field of the right
\* type ("malformed"), or JSON syntax ("syntax")
RawMsgs(t) ==
    { \* {}
      [msg |-> <<123, 125>>, defect |-> "absent"],
      \* {"expires":<t+1>}
      [msg |-> <<123, 34>> \o KeyExpires \o <<34, 58>> \o Itoa(t + 1) \o <<125>>,
       defect |-> "absent"],
      \* {"auth_data":"a","by":"b"}
      [msg |-> <<123, 34>> \o KeyAuthData \o <<34, 58, 34, 97, 34, 44, 34>>
               \o KeyBy \o <<34, 58, 34, 98, 34, 125>>,
       defect |-> "absent"],
      \* {"auth_data":"a","expires":"x","by":"b"}
      [msg |-> <<123, 34>> \o KeyAuthData \o <<34, 58, 34, 97, 34, 44, 34>>
               \o KeyExpires \o <<34, 58, 34, 120, 34, 44, 34>>
               \o KeyBy \o <<34, 58, 34, 98, 34, 125>>,
       defect |-> "malformed"],
      \* {"auth_data":7,"expires":<t+1>,"by":"b"}
      [msg |-> <<123, 34>> \o KeyAuthData \o <<34, 58, 55, 44, 34>>
               \o KeyExpires \o <<34, 58>> \o Itoa(t + 1) \o <<44, 34>>
               \o KeyBy \o <<34, 58, 34, 98, 34, 125>>,
       defect |-> "malformed"],
      \* { "by" : "b" , "expires" : <t+1> , "auth_data" : "~" }
      [msg |-> <<123, 32, 34>> \o KeyBy \o <<34, 32, 58, 32, 34, 98, 34, 32, 44, 32, 34>>
               \o KeyExpires \o <<34, 32, 58, 32>> \o Itoa(t + 1) \o <<32, 44, 32, 34>>
               \o KeyAuthData \o <<34, 32, 58, 32, 34, 92, 117, 48, 48, 55, 101, 34, 32, 125>>,
       defect |-> "none"],
      \* nojson
      [msg |-> <<110, 111, 106, 115, 111, 110>>, defect |-> "syntax"],
      \* the empty message
      [msg |-> <<>>, defect |-> "syntax"] }

\* strings a client may send that no encoder made: "", "-", "-ab", "abcd",
\* "abcd-", "abcd--", "--"
Inputs ==
    {<<>>, <<45>>, <<45, 97, 98>>, <<97, 98, 99, 100>>, <<97, 98, 99, 100, 45>>,
     <<97, 98, 99, 100, 45, 45>>, <<45, 45>>}

\* how the cookie at hand came to be: the call that made it and its arguments
Origin(op, user, exp, key, msg, defect, t, base, pos) ==
    [op |-> op, user |-> user, exp |-> exp, key |-> key, msg |-> msg,
     defect |-> defect, at |-> t, base |-> base, pos |-> pos]

\* no Parse of the cookie at hand yet
NoRes == [kind |-> "none", err |-> "", c |-> ZeroCookie, key |-> <<>>, at |-> 0]

\* the result of Parse(secret, cookie) at time t, with the call's arguments
ResOf(r, secret, t) ==
    [kind |-> r.kind, err |-> r.err, c |-> r.c, key |-> secret, at |-> t]

\* no cookie at hand: a request starts with none
NoOrigin == Origin("None", <<>>, 0, <<>>, <<>>, "none", 0, <<>>, 0)

Init ==
    /\ now = NowStart
    /\ cookie = <<>>
    /\ origin = NoOrigin
    /\ res = NoRes

\* a caller mints a cookie: New(user, expiration, key)
DoNew(user, expiration, key) ==
    /\ origin = NoOrigin
    /\ cookie' = New(user, expiration, key)
    /\ origin' = Origin("New", user, expiration, key,
                        Marshal([AuthData |-> user, ExpiresUnix |-> expiration,
                                 By |-> GeneratedByStr]),
                        "none", now, <<>>, 0)
    /\ res' = NoRes
    /\ UNCHANGED now

\* a caller signs a payload of its own: NewRawMsg(msg, key)
DoNewRawMsg(m, key) ==
    /\ origin = NoOrigin
    /\ cookie' = NewRawMsg(m.msg, key)
    /\ origin' = Origin("NewRawMsg", <<>>, 0, key, m.msg, m.defect, now, <<>>, 0)
    /\ res' = NoRes
    /\ UNCHANGED now

\* a client sends a string of its own
DoInput(s) ==
    /\ origin = NoOrigin
    /\ cookie' = s
    /\ origin' = Origin("Input", <<>>, 0, <<>>, <<>>, "none", now, <<>>, 0)
    /\ res' = NoRes
    /\ UNCHANGED now

\* Parse(secret, cookie)
DoParse(secret) ==
    /\ res' = ResOf(Parse(secret, cookie, now), secret, now)
    /\ UNCHANGED <<now, cookie, origin>>

\* Refresh(c, key) of a record c that Parse returned
DoRefresh(key) ==
    /\ res.kind = "ok"
    /\ cookie' = Refresh(res.c, key, now)
    /\ origin' = Origin("Refresh", res.c.AuthData, res.c.ExpiresUnix, key,
                        <<>>, "none", now, <<>>, 0)
    /\ res' = NoRes
    /\ UNCHANGED now

\* the request ends: its cookie and its result are dropped
Drop ==
    /\ origin # NoOrigin
    /\ cookie' = <<>>
    /\ origin' = NoOrigin
    /\ res' = NoRes
    /\ UNCHANGED now

\* a second passes
Tick ==
    /\ now < MaxNow
    /\ now' = now + 1
    /\ UNCHANGED <<cookie, origin, res>>

Next ==
    \/ \E user \in Users, expiration \in Expirations(now), key \in Keys :
           DoNew(user, expiration, key)
    \/ \E m \in RawMsgs(now), key \in Keys : DoNewRawMsg(m, key)
    \/ \E s \in Inputs : DoInput(s)
    \/ \E secret \in Keys : DoParse(secret)
    \/ \E key \in Keys : DoRefresh(key)
    \/ Drop
    \/ Tick

Spec == Init /\ [][Next]_vars

---------------------------------------------------------------------------
(* Tampering: one character of a cookie that Parse accepted is replaced *)

\* identities of the cookies that are tampered with: "a" and "\""
TamperUsers == {<<97>>, <<34>>}

\* what may replace the byte c: '-', 'A', 'g', and the upper-case form of a
\* lower-case letter
Replacements(c) ==
    ({45, 65, 103} \cup (IF c >= 97 /\ c <= 122 THEN {c - 32} ELSE {})) \ {c}

\* the 0-based positions of the encoded text and of the signature of a
\* cookie made by NewRawMsg: all but the two of the separator
TamperPositions(ck) ==
    LET last == LastIndex(ck, Dash) IN
    {p \in 0..(Len(ck) - 1) : p < last - 1 \/ p > last}

DoNewValid(user, key) ==
    /\ origin = NoOrigin
    /\ cookie' = New(user, now, key)
    /\ origin' = Origin("New", user, now, key,
                        Marshal([AuthData |-> user, ExpiresUnix |-> now,
                                 By |-> GeneratedByStr]),
                        "none", now, <<>>, 0)
    /\ res' = NoRes
    /\ UNCHANGED now

\* the byte at 0-based position p of a cookie that Parse accepted becomes b
DoTamper(p, b) ==
    /\ origin.op = "New"
    /\ res.kind = "ok"
    /\ b \in Replacements(cookie[p + 1])
    /\ cookie' = [cookie EXCEPT ![p + 1] = b]
    /\ origin' = Origin("Tamper", origin.user, origin.exp, res.key, origin.msg,
                        "none", now, cookie, p)
    /\ res' = NoRes
    /\ UNCHANGED now

NextTamper ==
    \/ \E user \in TamperUsers, key \in Keys : DoNewValid(user, key)
    \/ \E p \in TamperPositions(cookie), b \in {45, 65, 103} \cup 65..90 : DoTamper(p, b)
    \/ DoParse(origin.key)
    \/ Drop

SpecTamper == Init /\ [][NextTamper]_vars

---------------------------------------------------------------------------
(* The claims *)

TheRecord == [AuthData |-> origin.user, ExpiresUnix |-> origin.exp, By |-> GeneratedByStr]

\* C1 (round trip): a cookie made by New(identity, expiration, key) with an
\* expiration not before the current time is parsed with the same key into
\* the record {identity, expiration, GeneratedByStr}.
C1_RoundTrip ==
    (origin.op = "New" /\ res.kind # "none" /\ res.key = origin.key
        /\ origin.exp >= res.at)
    => (res.kind = "ok" /\ res.c = TheRecord)

\* the tag after the last '-' of ck is the HMAC, under key, of ck[0 : lastDash-1]
SignatureMatches(ck, key) ==
    LET last == LastIndex(ck, Dash)
        sig == HexDecode(Slice(ck, last + 1, Len(ck)))
    IN last >= 1 /\ sig.ok /\ sig.bytes = MacSum(key, Slice(ck, 0, last - 1))

\* C2 (trust invariant): Parse returns a record only if the signature matches
\* under the key it was given and the record's ExpiresUnix is not before the
\* current time; in every other case it returns nil and an error.
C2_TrustInvariant ==
    res.kind # "none" =>
        /\ res.kind \in {"ok", "err"}
        /\ res.kind = "ok" =>
               SignatureMatches(cookie, res.key) /\ res.c.ExpiresUnix >= res.at

\* C3 (tamper detection), its "never succeeds" part: after one character of
\* the encoded text or of the signature of a valid cookie is replaced by
\* another, Parse with the original key does not return a record.
C3_TamperNeverSucceeds ==
    (origin.op = "Tamper" /\ res.kind # "none") => res.kind # "ok"

\* C3, what holds instead: a tampered cookie is accepted only when a letter
\* 'a'..'f' of the signature became its upper-case form, and then with the
\* record of the original cookie.
C3_OnlyHexCaseSucceeds ==
    (origin.op = "Tamper" /\ res.kind = "ok") =>
        LET b == origin.base[origin.pos + 1] IN
        /\ origin.pos > LastIndex(origin.base, Dash)
        /\ b >= 97 /\ b <= 102 /\ cookie[origin.pos + 1] = b - 32
        /\ res.c = TheRecord

\* C3, what holds instead: every other tampered cookie is rejected, with the
\* bad-signature, the base64 or the signature-decoding error.
C3_TamperErrors ==
    (origin.op = "Tamper" /\ res.kind \notin {"none", "ok"}) =>
        /\ res.kind = "err"
        /\ res.err \in {ErrBadSignature, ErrBase64, ErrSignatureDecode}

\* C4 (Parse is total): Parse returns a record or an error for every input;
\* it never ends in a run-time panic.
C4_ParseTotal == res.kind # "panic"

\* C5 (malformed structural inputs): the error for a string without '-' is
\* the no-dashes error, and the error for a string that ends at its last '-'
\* is the no-signature error.
C5_MalformedInputs ==
    res.kind = "err" =>
        /\ Index(cookie, Dash) = -1 => res.err = ErrNoDashes
        /\ (Len(cookie) > 0 /\ cookie[Len(cookie)] = Dash) => res.err = ErrNoSignature

\* C6 (expiration check): a correctly signed cookie carrying expiration e,
\* parsed at time t, is rejected as expired if and only if e < t, for e
\* anywhere in the int64 range.
C6_ExpiredIffBefore ==
    (origin.op = "New" /\ res.key = origin.key
        /\ (res.kind = "ok" \/ (res.kind = "err" /\ res.err = ErrExpired)))
    => ((res.kind = "err") <=> (origin.exp < res.at))

\* the record carried by the whole encoded text of a cookie: the text before
\* the separator, without its pad characters, decoded and unmarshalled
TokenPayload(ck) ==
    LET enc == Slice(ck, 0, LastIndex(ck, Dash) - 1)
        n == Len(enc)
        pads == IF n % 4 = 0 /\ n >= 2 /\ enc[n] = Dash /\ enc[n - 1] = Dash THEN 2
                ELSE IF n % 4 = 0 /\ n >= 1 /\ enc[n] = Dash THEN 1
                ELSE 0
        bytes == B64RawDecode(SubSeq(enc, 1, n - pads))
    IN IF bytes.ok THEN Unmarshal(bytes.bytes) ELSE NoCookie

\* C7 (refresh semantics), as claimed: the cookie made by Refresh(c, key),
\* parsed with that key, gives a record whose expiration is strictly later
\* than c.ExpiresUnix and whose identity is c.AuthData.
C7_RefreshIsLater ==
    (origin.op = "Refresh" /\ res.kind # "none" /\ res.key = origin.key)
    => (res.kind = "ok" /\ res.c.ExpiresUnix > origin.exp
        /\ res.c.AuthData = origin.user)

\* C7 (refresh semantics), as amended: the whole encoded text of the cookie
\* made by Refresh(c, key) at time t carries the record {c.AuthData,
\* t + DefaultDuration, GeneratedByStr}; its expiration is strictly later than
\* c.ExpiresUnix exactly when c.ExpiresUnix < t + DefaultDuration.
C7_RefreshPayload ==
    origin.op = "Refresh" =>
        LET p == TokenPayload(cookie) IN
        /\ p.ok
        /\ p.c = [AuthData |-> origin.user,
                  ExpiresUnix |-> origin.at + DefaultDuration,
                  By |-> GeneratedByStr]
        /\ (p.c.ExpiresUnix > origin.exp) <=> (origin.exp < origin.at + DefaultDuration)

\* C7, witness: a record valid for longer than the refresh window has been
\* refreshed
C7_Witness ==
    /\ origin.op = "Refresh"
    /\ origin.exp = origin.at + DefaultDuration + 1

\* C8 (wrong key): a cookie made by New with one key, parsed with another,
\* is rejected with the bad-signature error.
C8_WrongKeyBadSignature ==
    (origin.op = "New" /\ res.kind # "none" /\ res.key # origin.key)
    => (res.kind = "err" /\ res.err = ErrBadSignature)

\* C9 (signature scope): in t = NewRawMsg(msg, key) the last '-' is the second
\* character of the separator, t[0 : lastDash-1] is the encoded text that was
\* signed, pad characters included, and t[lastDash+1 :] is the hex tag.
C9_SignatureScope ==
    origin.op \in {"New", "NewRawMsg"} =>
        LET last == LastIndex(cookie, Dash)
            enc == B64Encode(origin.msg, Dash)
        IN /\ last = Len(enc) + 1
           /\ Slice(cookie, last - 1, last + 1) = Separator
           /\ SliceInRange(cookie, 0, SigScopeEnd(last))
           /\ Slice(cookie, 0, SigScopeEnd(last)) = enc
           /\ Slice(cookie, last + 1, Len(cookie)) = HexEncode(MacSum(origin.key, enc))

\* C9, witness: a cookie made by NewRawMsg whose encoded text ends in a pad
\* character
C9_Witness ==
    /\ origin.op = "NewRawMsg"
    /\ Len(origin.msg) % 3 = 2
    /\ cookie[Len(B64Encode(origin.msg, Dash))] = Dash

\* C10 (payload format check): a correctly signed cookie whose payload lacks a
\* field of the record, or has one of the wrong type, is rejected with the
\* payload-format error.
C10_PayloadFormat ==
    (origin.op = "NewRawMsg" /\ origin.defect \in {"absent", "malformed"}
        /\ res.kind # "none" /\ res.key = origin.key)
    => (res.kind = "err" /\ res.err = ErrJSON)

==========================================================================
